---- MODULE Spec2Model ----
(***************************************************************************)
(* Belette: the staged move picker (src/src/movepicker.h) and the search   *)
(* budget, killer and counter-move tables of SearchData and the flags of   *)
(* Engine (src/src/engine.h).                                              *)
(*                                                                         *)
(* MovePicker::enumerate is modelled stage by stage: every action is one   *)
(* stage of the function, with the handler's continue/stop answer chosen   *)
(* nondeterministically at every invocation.  The Position is an external  *)
(* collaborator: a position is a set of legal moves taken from a fixed     *)
(* family of moves, a check flag and the SEE value of every legal          *)
(* tactical move.                                                          *)
(***************************************************************************)
EXTENDS Integers, Sequences, FiniteSets, TLC

\* ------------------------------------------------------------------ bounds
\* at most MaxLegal legal moves in a position
MaxLegal == 3
\* the TT move ranges over MOVE_NONE and the moves 1..MaxTT
MaxTT == 3
\* killers and the counter move range over MOVE_NONE and the moves 1..MaxRef
MaxRef == 3
\* the clock of the search advances up to MaxNow milliseconds
MaxNow == 3
\* number of 1024-node sampling periods a search is followed for
MaxPeriods == 2
\* number of searches an Engine is followed for
MaxSearches == 2
\* the killer table is followed for the plies 0 .. MaxPly - 1
MaxPly == 2
\* killers and counter moves stored are MOVE_NONE and the moves 1..MaxHeurMove
MaxHeurMove == 3
\* the squares 0 .. MaxSquare and the pieces 0 .. MaxPiece index the
\* counter-move table
MaxSquare == 1
MaxPiece == 1
\* the number of nested calls the stack has room for
MaxFrames == 3
\* perft: the deepest depth asked for, and the number of different moves
MaxPerftDepth == 3
MaxPerftMove == 2

\* ------------------------------------------------------- chess.h, move.h
MOVE_NONE == 0
NO_PIECE_TYPE == 0
PAWN == 1
KNIGHT == 2
BISHOP == 3
ROOK == 4
QUEEN == 5
KING == 6
NB_PIECE_TYPE == 7

\* PieceValue<MG>: middlegame value of the piece standing on a square
\* (0 for an empty square)
PieceValueMG(pt) ==
    CASE pt = PAWN   -> 126
      [] pt = KNIGHT -> 781
      [] pt = BISHOP -> 825
      [] pt = ROOK   -> 1276
      [] pt = QUEEN  -> 2538
      [] OTHER       -> 0

\* What the position says about one move: the piece type on the from
\* square (pt), the piece type on the to square (victim), the move type,
\* the promotion piece, the threat bitboards at from and to, and whether
\* a pawn / knight / bishop ray / rook ray placed on the to square hits
\* the enemy king.
BaseMove ==
    [pt |-> PAWN, victim |-> NO_PIECE_TYPE, mtype |-> "NORMAL",
     promo |-> NO_PIECE_TYPE,
     fromByPawns |-> FALSE, fromByMinors |-> FALSE, fromByRooks |-> FALSE,
     toByPawns |-> FALSE, toByMinors |-> FALSE, toByRooks |-> FALSE,
     pawnHitsKing |-> FALSE, knightHitsKing |-> FALSE,
     diagHitsKing |-> FALSE, orthHitsKing |-> FALSE]

\* The family of moves positions are built from.
\*   1  knight move giving check          (quiet)
\*   2  knight takes pawn                 (capture)
\*   3  queen leaving a rook's attack     (quiet, threat-evasion bonus)
\*   4  pawn takes queen                  (capture)
\*   5  en-passant capture                (capture, empty to square)
\*   6  pawn promoting to a knight        (quiet generation, promotion)
MoveInfo ==
    << [BaseMove EXCEPT !.pt = KNIGHT, !.knightHitsKing = TRUE],
       [BaseMove EXCEPT !.pt = KNIGHT, !.victim = PAWN],
       [BaseMove EXCEPT !.pt = QUEEN, !.fromByRooks = TRUE],
       [BaseMove EXCEPT !.victim = QUEEN],
       [BaseMove EXCEPT !.mtype = "EN_PASSANT"],
       [BaseMove EXCEPT !.mtype = "PROMOTION", !.promo = KNIGHT] >>

Moves == DOMAIN MoveInfo

\* SEE values a tactical move can have: losing more than 50, losing less
\* than 50, not losing
SeeValues == {-100, -25, 0}

WHITE == 0
BLACK == 1

\* values of the limits and of the allocated time, in milliseconds and nodes
TimeLeftValues == {0, 5}
MaxTimeValues == {0, 2}
MaxNodesValues == {0, 1024, 1500}
AllocatedValues == {1, 2}
StartTimes == {0, 1}

MAIN == "MAIN"
QUIESCENCE == "QUIESCENCE"

VARIABLES
    \* ---- MovePicker: template parameter, position, constructor arguments
    Type,            \* MAIN or QUIESCENCE
    Legal,           \* the legal moves of pos
    inCheck,         \* pos.inCheck()
    seeVal,          \* SEE value of every legal tactical move
    ttMove,
    refutations,     \* <<killer1, killer2, counter>>
    \* ---- MovePicker::enumerate: locals and control
    pc,              \* the stage enumerate is about to run
    moves,           \* ScoredMoveList moves
    endBadTacticals, \* offsets from moves.begin()
    beginQuiets,
    endBadQuiets,
    calls,           \* the handler invocations made so far
    stopped,         \* some handler invocation returned stop
    result,          \* return value of enumerate ("none" while running)
    \* ---- SearchData
    timeLeft,        \* limits.timeLeft[NB_SIDE]
    maxTime,         \* limits.maxTime
    maxNodes,        \* limits.maxNodes
    nbNodes,
    startTime,
    allocatedTime,
    now,             \* the clock read by now()
    stopAnswer,      \* answer of the shouldStop() call made at this node
                     \* and time ("none": not called)
    \* ---- Engine
    searching,
    aborted,
    stopRequested,   \* stop() was called during the search under way
    lastEnd,         \* how the most recent search ended ("never": none did)
    searches,        \* number of search() calls made
    \* ---- SearchData: refutation tables and the position they are read at
    killerMoves,     \* killerMoves[ply][slot]
    counterMoves,    \* counterMoves[piece][square]
    prevMove,        \* position.previousMove()
    board,           \* position.getPieceAt(square)
    lastOp,          \* the last call made on the tables
    \* ---- MovePicker::scoreQuiet called on one move
    qmove,           \* the facts of the move m
    qscore,          \* the value returned
    qdone,           \* scoreQuiet(m) has returned
    \* ---- SearchData::useTimeLimit called once
    tlEntries,       \* the number of times its body was entered
    tlAnswer,        \* "none" while it runs, then "true", "false" or
                     \* "overflow" (the stack ran out)
    \* ---- perft<Div>(pos, depth)
    pfLegal,         \* the game: the legal moves after each move (0: at
                     \* the position perft is called on)
    pfRootSide,      \* the side to move in the position perft is called on
    pfDiv,           \* template parameter Div of the outermost call
    pfDepth,         \* argument depth of the outermost call
    pfPos,           \* pos: the moves done and not undone since the call
    pfStack,         \* the open calls of perft<Div, Me>, outermost first
    pfPhase,         \* "off", "called", "running", "done"
    pfResult,        \* the value returned by the outermost call
    \* ---- perft(pos, depth), the driver
    drvPhase,        \* "off", "idle", "timing", "reported", "fault"
    drvBegin,        \* begin
    drvElapsed,      \* elapsed
    drvNps           \* the NPS figure printed

pickerVars == <<Type, Legal, inCheck, seeVal, ttMove, refutations, pc, moves,
                endBadTacticals, beginQuiets, endBadQuiets, calls, stopped,
                result>>

sdVars == <<timeLeft, maxTime, maxNodes, nbNodes, startTime, allocatedTime,
            now, stopAnswer>>

engineVars == <<searching, aborted, stopRequested, lastEnd, searches>>

\* everything but the picker and the budget of SearchData
heurVars == <<killerMoves, counterMoves, prevMove, board, lastOp>>

scoreVars == <<qmove, qscore, qdone>>

timeVars == <<tlEntries, tlAnswer>>

perftVars == <<pfLegal, pfRootSide, pfDiv, pfDepth, pfPos, pfStack, pfPhase,
               pfResult>>

driverVars == <<drvPhase, drvBegin, drvElapsed, drvNps>>

toolVars == <<scoreVars, timeVars, perftVars, driverVars>>

extVars == <<engineVars, heurVars, toolVars>>

vars == <<pickerVars, sdVars, extVars>>

\* --------------------------------------------------------------- Position
isLegal(m) == m \in Legal

isCapture(m) ==
    /\ m \in Moves
    /\ \/ MoveInfo[m].victim # NO_PIECE_TYPE
       \/ MoveInfo[m].mtype = "EN_PASSANT"

isTactical(m) ==
    /\ m \in Moves
    /\ \/ isCapture(m)
       \/ MoveInfo[m].mtype = "PROMOTION" /\ MoveInfo[m].promo = QUEEN

\* see(move, threshold): the SEE value meets or exceeds the threshold
see(m, threshold) == seeVal[m] >= threshold

\* enumerateLegalMoves<Me, TACTICAL_MOVES / QUIET_MOVES / ALL_MOVES>
TacticalMoves == {m \in Legal : isTactical(m)}
QuietMoves == {m \in Legal : ~isTactical(m)}
AllMoves == Legal


\* ------------------------------------------------------ MovePicker scores
\* MVV-LVA: value of the piece on the to square minus the type of the
\* piece on the from square
scoreTactical(m) ==
    PieceValueMG(MoveInfo[m].victim) - MoveInfo[m].pt

scoreEvasion_NoCapture(m) == 0

scoreEvasion(m) ==
    IF isCapture(m) THEN scoreTactical(m) ELSE 0

\* threatenedPieces & from, with threatenedPieces as computed before the
\* quiet generation
inThreatenedPieces(i) ==
    \/ i.pt \in {KNIGHT, BISHOP} /\ i.fromByPawns
    \/ i.pt = ROOK /\ i.fromByMinors
    \/ i.pt = QUEEN /\ i.fromByRooks

threatBonus(i) ==
    IF ~inThreatenedPieces(i) THEN 0
    ELSE IF i.pt = QUEEN /\ ~i.toByRooks THEN 1000
    ELSE IF i.pt = ROOK /\ ~i.toByMinors THEN 500
    ELSE IF i.pt \in {BISHOP, KNIGHT} /\ ~i.toByPawns THEN 300
    ELSE 0

\* the switch on the piece type: BISHOP falls through into ROOK, and ROOK
\* into QUEEN; attacks<QUEEN> is the union of both rays
checkBonus(i) ==
    LET bishopCase == IF i.diagHitsKing THEN 10 ELSE 0
        rookCase == IF i.orthHitsKing THEN 10 ELSE 0
        queenCase == IF i.diagHitsKing \/ i.orthHitsKing THEN 10 ELSE 0
    IN  CASE i.pt = PAWN   -> IF i.pawnHitsKing THEN 10 ELSE 0
          [] i.pt = KNIGHT -> IF i.knightHitsKing THEN 10 ELSE 0
          [] i.pt = BISHOP -> bishopCase + rookCase + queenCase
          [] i.pt = ROOK   -> rookCase + queenCase
          [] i.pt = QUEEN  -> queenCase
          [] OTHER         -> 0

\* scoreQuiet on the facts i of the move
scoreQuietOf(i) ==
    IF i.mtype = "PROMOTION" THEN -100
    ELSE (NB_PIECE_TYPE - i.pt) + threatBonus(i) + checkBonus(i)

scoreQuiet(m) == scoreQuietOf(MoveInfo[m])

\* --------------------------------------------------------------- std::sort
Before_Ascending(a, b) == a.score < b.score

\* the comparator handed to std::sort: a goes before b
Before(a, b) == a.score > b.score

\* every order std::sort may leave the scored moves S in: no element is
\* placed after one it must go before; the order of ties is unspecified
RECURSIVE SortedSeqs(_)
SortedSeqs(S) ==
    IF S = {} THEN {<< >>}
    ELSE UNION { { <<a>> \o t : t \in SortedSeqs(S \ {a}) } :
                 a \in {x \in S : \A y \in S : ~Before(y, x)} }

ScoredMove(m, s) == [move |-> m, score |-> s]

MovesOf(seq) == [i \in DOMAIN seq |-> seq[i].move]

\* ------------------------------------------------------------ the handler
Handled_IgnoreStop(n, k) == n

\* number of handler invocations a loop over n moves makes when the
\* handler answers stop at its k-th invocation (k = 0: never)
Handled(n, k) == IF k = 0 THEN n ELSE k

Locals(m, ebt, bq, ebq) ==
    /\ moves' = m
    /\ endBadTacticals' = ebt
    /\ beginQuiets' = bq
    /\ endBadQuiets' = ebq

\* One loop of enumerate over the moves ms: each is handed to the handler,
\* `if (!handler(...)) return false`.  When no invocation stops, enumerate
\* goes on to the stage next with the locals m, ebt, bq, ebq ("done": it
\* returns true).
Invoke(ms, stage, next, m, ebt, bq, ebq) ==
    \E k \in 0 .. Len(ms) :
        LET n == Handled(Len(ms), k) IN
        /\ calls' = calls \o [i \in 1 .. n |->
                                [move |-> ms[i], stage |-> stage,
                                 stop |-> (i = k)]]
        /\ stopped' = (stopped \/ k # 0)
        /\ IF k # 0
           THEN /\ pc' = "done"
                /\ result' = "false"
                /\ Locals(<< >>, 0, 0, 0)
           ELSE IF next = "done"
           THEN /\ pc' = "done"
                /\ result' = "true"
                /\ Locals(<< >>, 0, 0, 0)
           ELSE /\ pc' = next
                /\ result' = result
                /\ Locals(m, ebt, bq, ebq)

inputVars == <<Type, Legal, inCheck, seeVal, ttMove, refutations>>

\* ------------------------------------------------------------- enumerate
\* // TTMove
TTMoveStage ==
    /\ pc = "tt"
    /\ LET next == IF inCheck THEN "evasions" ELSE "tacticals" IN
       Invoke(IF isLegal(ttMove) THEN <<ttMove>> ELSE << >>, "tt", next,
              moves, endBadTacticals, beginQuiets, endBadQuiets)
    /\ UNCHANGED <<inputVars, sdVars, extVars>>

\* // Evasions
GenEvasions ==
    {ScoredMove(m, scoreEvasion(m)) : m \in {x \in AllMoves : x # ttMove}}

EvasionsLoop(sorted) == SelectSeq(sorted, LAMBDA sm : sm.move # ttMove)

Evasions ==
    /\ pc = "evasions"
    /\ \E sorted \in SortedSeqs(GenEvasions) :
           Invoke(MovesOf(EvasionsLoop(sorted)), "evasion", "done",
                  sorted, endBadTacticals, beginQuiets, endBadQuiets)
    /\ UNCHANGED <<inputVars, sdVars, extVars>>

\* // Tacticals
TacticalKept_Threshold(m) ==
    /\ m # ttMove
    /\ Type = QUIESCENCE => see(m, -50)

TacticalKept(m) ==
    /\ m # ttMove
    /\ Type = QUIESCENCE => see(m, 0)

GenTacticals ==
    {ScoredMove(m, scoreTactical(m)) : m \in {x \in TacticalMoves : TacticalKept(x)}}

\* // Good tacticals: in MAIN a move failing see(-50) is moved to the front
\* of the list instead of being yielded
IsBadTactical(sm) == Type = MAIN /\ ~see(sm.move, -50)

Tacticals ==
    /\ pc = "tacticals"
    /\ \E sorted \in SortedSeqs(GenTacticals) :
         LET bad == SelectSeq(sorted, IsBadTactical)
             good == SelectSeq(sorted, LAMBDA sm : ~IsBadTactical(sm))
             after == [i \in 1 .. Len(sorted) |->
                         IF i <= Len(bad) THEN bad[i] ELSE sorted[i]]
         IN  Invoke(MovesOf(good), "goodTactical",
                    IF Type = QUIESCENCE THEN "done" ELSE "killer1",
                    after, Len(bad), beginQuiets, endBadQuiets)
    /\ UNCHANGED <<inputVars, sdVars, extVars>>

KillerOk_Tactical(r) ==
    /\ r # ttMove
    /\ isLegal(r)

\* // Killer 1, // Killer 2
KillerOk(r) ==
    /\ r # ttMove
    /\ ~isTactical(r)
    /\ isLegal(r)

CounterOk_Self(r) ==
    /\ r # ttMove
    /\ ~isTactical(r)
    /\ r # refutations[1]
    /\ r # refutations[3]
    /\ isLegal(r)

\* // Counter
CounterOk(r) ==
    /\ r # ttMove
    /\ ~isTactical(r)
    /\ r # refutations[1]
    /\ r # refutations[2]
    /\ isLegal(r)

Killer1 ==
    /\ pc = "killer1"
    /\ Invoke(IF KillerOk(refutations[1]) THEN <<refutations[1]>> ELSE << >>,
              "killer1", "killer2",
              moves, endBadTacticals, beginQuiets, endBadQuiets)
    /\ UNCHANGED <<inputVars, sdVars, extVars>>

Killer2 ==
    /\ pc = "killer2"
    /\ Invoke(IF KillerOk(refutations[2]) THEN <<refutations[2]>> ELSE << >>,
              "killer2", "counter",
              moves, endBadTacticals, beginQuiets, endBadQuiets)
    /\ UNCHANGED <<inputVars, sdVars, extVars>>

Counter ==
    /\ pc = "counter"
    /\ Invoke(IF CounterOk(refutations[3]) THEN <<refutations[3]>> ELSE << >>,
              "counter", "quiets",
              moves, endBadTacticals, beginQuiets, endBadQuiets)
    /\ UNCHANGED <<inputVars, sdVars, extVars>>

\* // Quiets
QuietKept_NoRefutations(m) == m # ttMove

QuietKept(m) ==
    /\ m # ttMove
    /\ ~(refutations[1] = m \/ refutations[2] = m \/ refutations[3] = m)

GenQuiets ==
    {ScoredMove(m, scoreQuiet(m)) : m \in {x \in QuietMoves : QuietKept(x)}}

Range(seq) == {seq[i] : i \in DOMAIN seq}

\* the part of the list std::sort is applied to after the quiets were
\* appended: moves.begin() .. moves.end()
SortedAfterQuiets(kept) == SortedSeqs(Range(kept) \cup GenQuiets)

\* // Good quiets: the loop starts at endBadTacticals; a move with a
\* negative score is moved to endBadQuiets instead of being yielded
Quiets ==
    /\ pc = "quiets"
    /\ LET kept == SubSeq(moves, 1, endBadTacticals) IN
       \E sorted \in SortedAfterQuiets(kept) :
         LET tail == SubSeq(sorted, endBadTacticals + 1, Len(sorted))
             bad == SelectSeq(tail, LAMBDA sm : sm.score < 0)
             good == SelectSeq(tail, LAMBDA sm : ~(sm.score < 0))
             after == [i \in 1 .. Len(sorted) |->
                         IF i > endBadTacticals /\ i <= endBadTacticals + Len(bad)
                         THEN bad[i - endBadTacticals] ELSE sorted[i]]
         IN  Invoke(MovesOf(good), "goodQuiet", "badTacticals",
                    after, endBadTacticals, endBadTacticals,
                    endBadTacticals + Len(bad))
    /\ UNCHANGED <<inputVars, sdVars, extVars>>

\* // Bad tacticals
BadTacticals ==
    /\ pc = "badTacticals"
    /\ Invoke(MovesOf(SubSeq(moves, 1, endBadTacticals)), "badTactical",
              "badQuiets", moves, endBadTacticals, beginQuiets, endBadQuiets)
    /\ UNCHANGED <<inputVars, sdVars, extVars>>

\* // Bad quiets
BadQuiets ==
    /\ pc = "badQuiets"
    /\ Invoke(MovesOf(SubSeq(moves, beginQuiets + 1, endBadQuiets)),
              "badQuiet", "done",
              moves, endBadTacticals, beginQuiets, endBadQuiets)
    /\ UNCHANGED <<inputVars, sdVars, extVars>>

\* ------------------------------------------------------------ SearchData
useTournamentTime == (timeLeft[WHITE] # 0) \/ (timeLeft[WHITE] # 0)
useFixedTime == maxTime > 0
useNodeCountLimit == maxNodes > 0

shouldStop_EveryNode ==
    LET elapsed == now - startTime IN
    IF useTournamentTime /\ elapsed >= allocatedTime THEN TRUE
    ELSE IF useFixedTime /\ elapsed > maxTime THEN TRUE
    ELSE IF useNodeCountLimit /\ nbNodes >= maxNodes THEN TRUE
    ELSE FALSE

shouldStop ==
    IF nbNodes % 1024 # 0 THEN FALSE
    ELSE LET elapsed == now - startTime IN
         IF useTournamentTime /\ elapsed >= allocatedTime THEN TRUE
         ELSE IF useFixedTime /\ elapsed > maxTime THEN TRUE
         ELSE IF useNodeCountLimit /\ nbNodes >= maxNodes THEN TRUE
         ELSE FALSE

ShouldStop ==
    /\ stopAnswer' = (IF shouldStop THEN "true" ELSE "false")
    /\ UNCHANGED <<timeLeft, maxTime, maxNodes, nbNodes, startTime,
                   allocatedTime, now>>
    /\ UNCHANGED <<pickerVars, extVars>>

\* nbNodes++ at the entry of a node.  The nodes 2 .. 1022 of a sampling
\* period, where shouldStop answers false on its first line, are entered
\* in one step.
NextCount(n) == IF n % 1024 = 1 THEN n + 1022 ELSE n + 1

VisitNode ==
    /\ nbNodes <= MaxPeriods * 1024
    /\ nbNodes' = NextCount(nbNodes)
    /\ stopAnswer' = "none"
    /\ UNCHANGED <<timeLeft, maxTime, maxNodes, startTime, allocatedTime, now>>
    /\ UNCHANGED <<pickerVars, extVars>>

\* a millisecond passes
Tick ==
    /\ now - startTime < MaxNow
    /\ now' = now + 1
    /\ stopAnswer' = "none"
    /\ UNCHANGED <<timeLeft, maxTime, maxNodes, nbNodes, startTime,
                   allocatedTime>>
    /\ UNCHANGED <<pickerVars, extVars>>

\* ----------------------------------------------------------------- Engine
\* Engine(): bool aborted = true; bool searching = false;
EngineInit ==
    /\ aborted = TRUE
    /\ searching = FALSE
    /\ stopRequested = FALSE
    /\ lastEnd = "never"
    /\ searches = 0

\* search(limits): a new search resets aborted and builds its SearchData
Search ==
    /\ ~searching
    /\ searches < MaxSearches
    /\ searches' = searches + 1
    /\ searching' = TRUE
    /\ aborted' = FALSE
    /\ stopRequested' = FALSE
    /\ lastEnd' = lastEnd
    /\ timeLeft' \in [{WHITE, BLACK} -> TimeLeftValues]
    /\ maxTime' \in MaxTimeValues
    /\ maxNodes' \in MaxNodesValues
    /\ allocatedTime' \in AllocatedValues
    /\ nbNodes' = 0
    /\ startTime' = now
    /\ now' = now
    /\ stopAnswer' = "none"
    /\ UNCHANGED <<pickerVars, heurVars, toolVars>>

\* stop(): requests cooperative termination of the search under way
Stop ==
    /\ searching
    /\ aborted' = TRUE
    /\ stopRequested' = TRUE
    /\ stopAnswer' = "none"
    /\ UNCHANGED <<searching, lastEnd, searches>>
    /\ UNCHANGED <<timeLeft, maxTime, maxNodes, nbNodes, startTime,
                   allocatedTime, now>>
    /\ UNCHANGED <<pickerVars, heurVars, toolVars>>

\* the search under way enters a node, polls its budget, lets time pass
SearchVisitNode == searching /\ VisitNode
SearchShouldStop == searching /\ ShouldStop
SearchTick == searching /\ Tick

\* the search under way ends: its budget is exhausted (shouldStop answered
\* true), a stop was requested, or the depth cap is reached
Finish ==
    /\ searching
    /\ searching' = FALSE
    /\ \/ /\ stopAnswer = "true"
          /\ aborted' = TRUE
          /\ lastEnd' = "budget"
       \/ /\ stopAnswer # "true"
          /\ aborted
          /\ aborted' = TRUE
          /\ lastEnd' = "stop"
       \/ /\ stopAnswer # "true"
          /\ ~aborted
          /\ aborted' = FALSE
          /\ lastEnd' = "depth"
    /\ UNCHANGED <<stopRequested, searches>>
    /\ UNCHANGED sdVars
    /\ UNCHANGED <<pickerVars, heurVars, toolVars>>

\* ------------------------------------ SearchData: killers and counter moves
Plies == 0 .. MaxPly - 1
HeurMoves == 0 .. MaxHeurMove
Squares == 0 .. MaxSquare
Pieces == 0 .. MaxPiece

\* a move as its from and to squares; MOVE_NONE is the encoding 0
SquareMove(f, t) == [from |-> f, to |-> t]
NoMove == SquareMove(0, 0)
moveTo(m) == m.to
moveFrom(m) == m.from
PreviousMoves ==
    {NoMove} \cup {m \in [from : Squares, to : Squares] : m.from # m.to}

getPieceAt(sq) == board[sq]

\* SearchData(pos, limits): killerMoves{MOVE_NONE}, counterMoves{MOVE_NONE}
HeurInit ==
    /\ killerMoves = [p \in Plies |-> [k \in 0 .. 1 |-> MOVE_NONE]]
    /\ counterMoves = [pc_ \in Pieces |-> [sq \in Squares |-> MOVE_NONE]]
    /\ prevMove = NoMove
    /\ board = [sq \in Squares |-> 0]
    /\ lastOp = [op |-> "none", move |-> MOVE_NONE, ply |-> 0]

\* killerMoves after clearKillers(ply)
clearKillers(ply) ==
    [killerMoves EXCEPT ![ply] = [k \in 0 .. 1 |-> MOVE_NONE]]

updateKillers_NoGuard(move, ply) ==
    [killerMoves EXCEPT ![ply] =
        [k \in 0 .. 1 |-> IF k = 0 THEN move ELSE killerMoves[ply][0]]]

updateKillers_NoShift(move, ply) ==
    IF killerMoves[ply][0] # move
    THEN [killerMoves EXCEPT ![ply][0] = move]
    ELSE killerMoves

\* killerMoves after updateKillers(move, ply)
updateKillers(move, ply) ==
    IF killerMoves[ply][0] # move
    THEN [killerMoves EXCEPT ![ply] =
            [k \in 0 .. 1 |-> IF k = 0 THEN move ELSE killerMoves[ply][0]]]
    ELSE killerMoves

updateCounter_FromSquare(move) ==
    IF prevMove # NoMove
    THEN [counterMoves EXCEPT
            ![getPieceAt(moveTo(prevMove))][moveFrom(prevMove)] = move]
    ELSE counterMoves

\* counterMoves after updateCounter(move)
updateCounter(move) ==
    IF prevMove # NoMove
    THEN [counterMoves EXCEPT
            ![getPieceAt(moveTo(prevMove))][moveTo(prevMove)] = move]
    ELSE counterMoves

getCounter ==
    IF prevMove = NoMove THEN MOVE_NONE
    ELSE counterMoves[getPieceAt(moveTo(prevMove))][moveTo(prevMove)]

ClearKillers ==
    /\ \E ply \in Plies :
          /\ killerMoves' = clearKillers(ply)
          /\ lastOp' = [op |-> "clearKillers", move |-> MOVE_NONE, ply |-> ply]
    /\ UNCHANGED <<counterMoves, prevMove, board>>
    /\ UNCHANGED <<pickerVars, sdVars, engineVars, toolVars>>

UpdateKillers ==
    /\ \E move \in HeurMoves, ply \in Plies :
          /\ killerMoves' = updateKillers(move, ply)
          /\ lastOp' = [op |-> "updateKillers", move |-> move, ply |-> ply]
    /\ UNCHANGED <<counterMoves, prevMove, board>>
    /\ UNCHANGED <<pickerVars, sdVars, engineVars, toolVars>>

UpdateCounter ==
    /\ \E move \in HeurMoves :
          /\ counterMoves' = updateCounter(move)
          /\ lastOp' = [op |-> "updateCounter", move |-> move, ply |-> 0]
    /\ UNCHANGED <<killerMoves, prevMove, board>>
    /\ UNCHANGED <<pickerVars, sdVars, engineVars, toolVars>>

\* the search moves to another node: doMove / undoMove on the position
SetPosition ==
    /\ prevMove' \in PreviousMoves
    /\ board' \in [Squares -> Pieces]
    /\ lastOp' = [op |-> "setPosition", move |-> MOVE_NONE, ply |-> 0]
    /\ UNCHANGED <<killerMoves, counterMoves>>
    /\ UNCHANGED <<pickerVars, sdVars, engineVars, toolVars>>

\* everything but the picker and the budget is as constructed
\* ---------------------------------------------------------------------
\* MovePicker::scoreQuiet on its own
\* ---------------------------------------------------------------------

\* where the enemy king stands relative to the to square: on no line, a
\* knight's jump away, on an open diagonal (next to it on the side a pawn
\* attacks, or not), or on an open rank or file
KingRelations ==
    { [pawn |-> FALSE, knight |-> FALSE, diag |-> FALSE, orth |-> FALSE],
      [pawn |-> FALSE, knight |-> TRUE,  diag |-> FALSE, orth |-> FALSE],
      [pawn |-> FALSE, knight |-> FALSE, diag |-> TRUE,  orth |-> FALSE],
      [pawn |-> TRUE,  knight |-> FALSE, diag |-> TRUE,  orth |-> FALSE],
      [pawn |-> FALSE, knight |-> FALSE, diag |-> FALSE, orth |-> TRUE] }

\* the moves scoreQuiet is called on: generated by the quiet generation,
\* so the to square is empty
QuietFacts ==
    LET all == { [pt |-> p, victim |-> NO_PIECE_TYPE, mtype |-> t,
                  promo |-> IF t = "PROMOTION" THEN KNIGHT
                            ELSE NO_PIECE_TYPE,
                  fromByPawns |-> fp, fromByMinors |-> fm,
                  fromByRooks |-> fr, toByPawns |-> tp,
                  toByMinors |-> tm, toByRooks |-> tr,
                  pawnHitsKing |-> k.pawn, knightHitsKing |-> k.knight,
                  diagHitsKing |-> k.diag, orthHitsKing |-> k.orth] :
                 p \in PAWN..KING, t \in {"NORMAL", "PROMOTION"},
                 fp \in BOOLEAN, fm \in BOOLEAN, fr \in BOOLEAN,
                 tp \in BOOLEAN, tm \in BOOLEAN, tr \in BOOLEAN,
                 k \in KingRelations }
    IN  { i \in all : i.mtype = "PROMOTION" => i.pt = PAWN }

ScoreIdle ==
    /\ qmove = BaseMove
    /\ qscore = 0
    /\ qdone = FALSE

ScoreQuietInit ==
    /\ qmove \in QuietFacts
    /\ qscore = 0
    /\ qdone = FALSE

\* the call scoreQuiet(m)
ScoreQuiet ==
    /\ ~qdone
    /\ qscore' = scoreQuietOf(qmove)
    /\ qdone' = TRUE
    /\ UNCHANGED <<qmove, pickerVars, sdVars, engineVars, heurVars, timeVars,
                   perftVars, driverVars>>

\* ---------------------------------------------------------------------
\* SearchData::useTimeLimit
\* ---------------------------------------------------------------------

TimeLimitIdle ==
    /\ tlEntries = 0
    /\ tlAnswer = "none"

\* the call useTimeLimit() from outside
UseTimeLimitEnter ==
    /\ tlAnswer = "none"
    /\ tlEntries = 0
    /\ tlEntries' = 1
    /\ UNCHANGED <<tlAnswer, pickerVars, sdVars, engineVars, heurVars,
                   scoreVars, perftVars, driverVars>>

\* useTournamentTime() is true: || short-circuits and every open call
\* returns true
UseTimeLimitReturn ==
    /\ tlAnswer = "none"
    /\ tlEntries >= 1
    /\ useTournamentTime
    /\ tlAnswer' = "true"
    /\ UNCHANGED <<tlEntries, pickerVars, sdVars, engineVars, heurVars,
                   scoreVars, perftVars, driverVars>>

\* useTournamentTime() is false: the right operand of || is the call
\* useTimeLimit() itself
UseTimeLimitRecurse ==
    /\ tlAnswer = "none"
    /\ tlEntries >= 1
    /\ tlEntries < MaxFrames
    /\ ~useTournamentTime
    /\ tlEntries' = tlEntries + 1
    /\ UNCHANGED <<tlAnswer, pickerVars, sdVars, engineVars, heurVars,
                   scoreVars, perftVars, driverVars>>

\* The recursion never reaches a return and has no side effect, which is
\* undefined behaviour.  A build that keeps the calls runs out of stack; a
\* build that turns the tail call into a jump spins in place (no further
\* step); a build that assumes the function returns folds it to the only
\* value a return could carry, true.
UseTimeLimitOverflow ==
    /\ tlAnswer = "none"
    /\ tlEntries = MaxFrames
    /\ ~useTournamentTime
    /\ tlAnswer' = "overflow"
    /\ UNCHANGED <<tlEntries, pickerVars, sdVars, engineVars, heurVars,
                   scoreVars, perftVars, driverVars>>

UseTimeLimitFolded ==
    /\ tlAnswer = "none"
    /\ tlEntries >= 1
    /\ ~useTournamentTime
    /\ tlAnswer' = "true"
    /\ UNCHANGED <<tlEntries, pickerVars, sdVars, engineVars, heurVars,
                   scoreVars, perftVars, driverVars>>

\* ---------------------------------------------------------------------
\* perft
\* ---------------------------------------------------------------------

PerftMoves == 1..MaxPerftMove

\* ~Me
otherSide(side) == IF side = WHITE THEN BLACK ELSE WHITE

\* pos.getSideToMove(): the sides alternate with every move done
getSideToMove(pos) ==
    IF Len(pos) % 2 = 0 THEN pfRootSide ELSE otherSide(pfRootSide)

\* the move that led to pos (0: none since the call)
lastMove(pos) == IF pos = <<>> THEN 0 ELSE pos[Len(pos)]

\* the moves enumerateLegalMoves<Me>(pos, handler) hands to its handler
enumerateLegalMoves(pos) == pfLegal[lastMove(pos)]

\* (pos.*doMove)(move) and (pos.*undoMove)(move): undoMove takes back the
\* last move done; handed any other move it leaves a position that is
\* none of the game's (marked by a 0)
doMove(pos, m) == Append(pos, m)

undoMove(pos, m) ==
    IF lastMove(pos) = m /\ m # 0 THEN SubSeq(pos, 1, Len(pos) - 1)
    ELSE Append(pos, 0)

\* a call of perft<Div, Me>(pos, depth) at its entry: total = 0, nothing
\* enumerated yet, no move in progress
perftFrame(div, me, depth, pos) ==
    [div |-> div, me |-> me, depth |-> depth, total |-> 0,
     todo |-> enumerateLegalMoves(pos), cur |-> 0]

\* the first branch, taken when !Div && depth <= 1: total += 1 for every
\* legal move
perftLeaf_One(pos) == 1

perftLeaf(pos) == Cardinality(enumerateLegalMoves(pos))

\* the call made by the second handler: perft<false, ~Me>(pos, depth - 1)
perftChild(f, pos) == perftFrame(FALSE, otherSide(f.me), f.depth - 1, pos)

PerftIdle ==
    /\ pfLegal = [i \in 0..MaxPerftMove |-> {}]
    /\ pfRootSide = WHITE
    /\ pfDiv = FALSE
    /\ pfDepth = 1
    /\ pfPos = <<>>
    /\ pfStack = <<>>
    /\ pfPhase = "off"
    /\ pfResult = 0

\* perft<Div>(pos, depth) is about to be called, on any game, with any
\* depth >= 1
PerftArguments ==
    /\ pfLegal \in [0..MaxPerftMove -> SUBSET PerftMoves]
    /\ pfRootSide \in {WHITE, BLACK}
    /\ pfDepth \in 1..MaxPerftDepth
    /\ pfPos = <<>>
    /\ pfStack = <<>>
    /\ pfResult = 0

PerftInit ==
    /\ PerftArguments
    /\ pfDiv \in BOOLEAN
    /\ pfPhase = "called"

PerftTop == pfStack[Len(pfStack)]

PerftAtLeaf == ~PerftTop.div /\ PerftTop.depth <= 1

PerftOthersUnchanged ==
    UNCHANGED <<pfLegal, pfRootSide, pfDiv, pfDepth, pickerVars, sdVars,
                engineVars, heurVars, scoreVars, timeVars>>

DriverUnchanged == UNCHANGED driverVars

\* perft<Div>(pos, depth): dispatch on the side to move
PerftStart ==
    /\ pfPhase = "called"
    /\ pfStack' = <<perftFrame(pfDiv, getSideToMove(pfPos), pfDepth, pfPos)>>
    /\ pfPhase' = "running"
    /\ UNCHANGED <<pfPos, pfResult>>
    /\ PerftOthersUnchanged
    /\ DriverUnchanged

\* `return total` of the innermost call hands n to its caller, whose
\* handler goes on after the call: undoMove(move), total += n.  The
\* outermost call hands n to the caller of perft<Div>.
PerftDeliver(n) ==
    LET callers == SubSeq(pfStack, 1, Len(pfStack) - 1)
        k == Len(callers)
    IN  IF k = 0
        THEN /\ pfResult' = n
             /\ pfPhase' = "done"
             /\ pfStack' = <<>>
             /\ UNCHANGED pfPos
        ELSE /\ pfPos' = undoMove(pfPos, callers[k].cur)
             /\ pfStack' = [callers EXCEPT ![k] =
                               [@ EXCEPT !.total = @ + n, !.cur = 0]]
             /\ UNCHANGED <<pfResult, pfPhase>>

\* if (!Div && depth <= 1) { count the legal moves; return total; }
PerftLeaf ==
    /\ pfPhase = "running"
    /\ PerftAtLeaf
    /\ PerftDeliver(perftLeaf(pfPos))
    /\ PerftOthersUnchanged
    /\ DriverUnchanged

\* the second handler, called on the next legal move
PerftVisit ==
    /\ pfPhase = "running"
    /\ ~PerftAtLeaf
    /\ PerftTop.todo # {}
    /\ LET f == PerftTop
           k == Len(pfStack)
           move == CHOOSE m \in f.todo : \A o \in f.todo : m <= o
           rest == f.todo \ {move}
       IN  IF f.div /\ f.depth = 1
           THEN \* n = 1; total += n
                /\ pfStack' = [pfStack EXCEPT ![k] =
                                  [f EXCEPT !.total = @ + 1, !.todo = rest]]
                /\ UNCHANGED pfPos
           ELSE IF f.depth = 1
           THEN \* doMove; n = 1; undoMove; total += n
                /\ pfStack' = [pfStack EXCEPT ![k] =
                                  [f EXCEPT !.total = @ + 1, !.todo = rest]]
                /\ pfPos' = undoMove(doMove(pfPos, move), move)
           ELSE \* doMove; n = perft<false, ~Me>(pos, depth - 1) ...
                /\ pfPos' = doMove(pfPos, move)
                /\ pfStack' = Append([pfStack EXCEPT ![k] =
                                         [f EXCEPT !.todo = rest,
                                                   !.cur = move]],
                                     perftChild(f, doMove(pfPos, move)))
    /\ UNCHANGED <<pfResult, pfPhase>>
    /\ PerftOthersUnchanged
    /\ DriverUnchanged

\* the enumeration is over: return total
PerftReturn ==
    /\ pfPhase = "running"
    /\ ~PerftAtLeaf
    /\ PerftTop.todo = {}
    /\ PerftDeliver(PerftTop.total)
    /\ PerftOthersUnchanged
    /\ DriverUnchanged

\* ---------------------------------------------------------------------
\* perft(pos, depth): the driver that prints nodes, NPS and time
\* ---------------------------------------------------------------------

DriverIdle ==
    /\ drvPhase = "off"
    /\ drvBegin = 0
    /\ drvElapsed = 0
    /\ drvNps = 0

\* perft(pos, depth) is about to be called, on any game, with any
\* depth >= 1
DriverInit ==
    /\ PerftArguments
    /\ pfDiv = TRUE
    /\ pfPhase = "off"
    /\ drvPhase = "idle"
    /\ drvBegin = 0
    /\ drvElapsed = 0
    /\ drvNps = 0

\* what an integer division by zero leaves in the quotient on a target
\* where it does not trap
DivideByZeroValues == {0}

\* auto begin = now(); then the call perft<true>(pos, depth)
DriverBegin ==
    /\ drvPhase = "idle"
    /\ drvPhase' = "timing"
    /\ drvBegin' = now
    /\ pfPhase' = "called"
    /\ UNCHANGED <<drvElapsed, drvNps, pfLegal, pfRootSide, pfDiv, pfDepth,
                   pfPos, pfStack, pfResult>>
    /\ UNCHANGED <<pickerVars, sdVars, engineVars, heurVars, scoreVars,
                   timeVars>>

\* a millisecond passes while perft<true> runs
DriverTick ==
    /\ drvPhase = "timing"
    /\ now - drvBegin < MaxNow
    /\ now' = now + 1
    /\ UNCHANGED <<timeLeft, maxTime, maxNodes, nbNodes, startTime,
                   allocatedTime, stopAnswer>>
    /\ UNCHANGED <<pickerVars, extVars>>

\* perft<true> has returned n: end = now(); elapsed = end - begin; print
\* n, size_t(n * 1000 / elapsed) and elapsed.  With elapsed == 0 the
\* division is undefined: it traps, or leaves a value of its own.
DriverReport ==
    /\ drvPhase = "timing"
    /\ pfPhase = "done"
    /\ drvElapsed' = now - drvBegin
    /\ IF now - drvBegin = 0
       THEN \/ /\ drvPhase' = "fault"
               /\ UNCHANGED drvNps
            \/ /\ drvPhase' = "reported"
               /\ drvNps' \in DivideByZeroValues
       ELSE /\ drvPhase' = "reported"
            /\ drvNps' = (pfResult * 1000) \div (now - drvBegin)
    /\ UNCHANGED <<drvBegin, perftVars>>
    /\ UNCHANGED <<pickerVars, sdVars, engineVars, heurVars, scoreVars,
                   timeVars>>

ToolIdle == ScoreIdle /\ TimeLimitIdle /\ PerftIdle /\ DriverIdle

ExtIdle == EngineInit /\ HeurInit /\ ToolIdle

\* ------------------------------------------------------------------- Init
Positions == {L \in SUBSET Moves : Cardinality(L) <= MaxLegal}

TTCandidates == {MOVE_NONE} \cup {m \in Moves : m <= MaxTT}
RefCandidates == {MOVE_NONE} \cup {m \in Moves : m <= MaxRef}

\* MovePicker(pos, ttMove, killer1, killer2, counter) with its assertion
\* killer1 != killer2 || killer1 == MOVE_NONE
PickerInit ==
    /\ Type \in {MAIN, QUIESCENCE}
    /\ Legal \in Positions
    /\ inCheck \in BOOLEAN
    /\ seeVal \in [TacticalMoves -> SeeValues]
    /\ ttMove \in TTCandidates
    /\ refutations \in {r \in RefCandidates \X RefCandidates \X RefCandidates :
                          r[1] # r[2] \/ r[1] = MOVE_NONE}
    /\ pc = "tt"
    /\ moves = << >>
    /\ endBadTacticals = 0
    /\ beginQuiets = 0
    /\ endBadQuiets = 0
    /\ calls = << >>
    /\ stopped = FALSE
    /\ result = "none"

\* no picker is at work
PickerIdle ==
    /\ Type = MAIN
    /\ Legal = {}
    /\ inCheck = FALSE
    /\ seeVal = << >>
    /\ ttMove = MOVE_NONE
    /\ refutations = <<MOVE_NONE, MOVE_NONE, MOVE_NONE>>
    /\ pc = "idle"
    /\ moves = << >>
    /\ endBadTacticals = 0
    /\ beginQuiets = 0
    /\ endBadQuiets = 0
    /\ calls = << >>
    /\ stopped = FALSE
    /\ result = "none"

\* SearchData(pos, limits): nbNodes(0), start() reads the clock and
\* initAllocatedTime() sets allocatedTime
SearchDataInit ==
    /\ timeLeft \in [{WHITE, BLACK} -> TimeLeftValues]
    /\ maxTime \in MaxTimeValues
    /\ maxNodes \in MaxNodesValues
    /\ nbNodes = 0
    /\ startTime \in StartTimes
    /\ now = startTime
    /\ allocatedTime \in AllocatedValues
    /\ stopAnswer = "none"

\* the search data of the node the picker is built at is left alone by
\* enumerate
SearchDataIdle ==
    /\ timeLeft = [s \in {WHITE, BLACK} |-> 0]
    /\ maxTime = 0
    /\ maxNodes = 0
    /\ nbNodes = 0
    /\ startTime = 0
    /\ now = 0
    /\ allocatedTime = 1
    /\ stopAnswer = "none"

Init == PickerInit /\ SearchDataIdle /\ ExtIdle

Next ==
    \/ TTMoveStage
    \/ Evasions
    \/ Tacticals
    \/ Killer1
    \/ Killer2
    \/ Counter
    \/ Quiets
    \/ BadTacticals
    \/ BadQuiets

\* one enumerate call of a MovePicker
Spec == Init /\ [][Next]_vars

SearchDataNext ==
    \/ ShouldStop
    \/ VisitNode
    \/ Tick

SearchInit == PickerIdle /\ SearchDataInit /\ ExtIdle

\* the budget of one search
SearchDataSpec == SearchInit /\ [][SearchDataNext]_vars


EngineStart == PickerIdle /\ SearchDataIdle /\ ExtIdle

EngineNext ==
    \/ Search
    \/ Stop
    \/ SearchVisitNode
    \/ SearchShouldStop
    \/ SearchTick
    \/ Finish

\* an Engine from its construction through its searches
EngineSpec == EngineStart /\ [][EngineNext]_vars

KillerNext ==
    \/ UpdateKillers
    \/ ClearKillers

\* the killer table of a SearchData from its construction
KillerSpec == EngineStart /\ [][KillerNext]_vars

CounterNext ==
    \/ UpdateCounter
    \/ SetPosition

\* the counter-move table of a SearchData from its construction
CounterSpec == EngineStart /\ [][CounterNext]_vars

\* scoreQuiet called on one quiet move of any kind
ScoreStart ==
    /\ PickerIdle /\ SearchDataIdle /\ EngineInit /\ HeurInit
    /\ ScoreQuietInit /\ TimeLimitIdle /\ PerftIdle /\ DriverIdle

ScoreNext == ScoreQuiet

ScoreSpec == ScoreStart /\ [][ScoreNext]_vars

\* useTimeLimit called on a SearchData with any limits
TimeLimitStart ==
    /\ PickerIdle /\ SearchDataInit /\ EngineInit /\ HeurInit
    /\ ScoreIdle /\ TimeLimitIdle /\ PerftIdle /\ DriverIdle

TimeLimitNext ==
    \/ UseTimeLimitEnter
    \/ UseTimeLimitReturn
    \/ UseTimeLimitRecurse
    \/ UseTimeLimitOverflow
    \/ UseTimeLimitFolded

TimeLimitSpec == TimeLimitStart /\ [][TimeLimitNext]_vars

\* perft<Div>(pos, depth) called on any game
PerftStartState ==
    /\ PickerIdle /\ SearchDataIdle /\ EngineInit /\ HeurInit
    /\ ScoreIdle /\ TimeLimitIdle /\ PerftInit /\ DriverIdle

PerftNext ==
    \/ PerftStart
    \/ PerftLeaf
    \/ PerftVisit
    \/ PerftReturn

PerftSpec == PerftStartState /\ [][PerftNext]_vars

\* the driver perft(pos, depth) called on any game
DriverStart ==
    /\ PickerIdle /\ SearchDataIdle /\ EngineInit /\ HeurInit
    /\ ScoreIdle /\ TimeLimitIdle /\ DriverInit

DriverNext ==
    \/ DriverBegin
    \/ DriverTick
    \/ PerftStart
    \/ PerftLeaf
    \/ PerftVisit
    \/ PerftReturn
    \/ DriverReport

DriverSpec == DriverStart /\ [][DriverNext]_vars

\* ================================================================ claims
Yielded == {calls[i].move : i \in DOMAIN calls}
Returned == pc = "done"
NoStop == result = "true"
MainNoCheck == Type = MAIN /\ ~inCheck /\ pc # "idle"

\* the moves the quiet generation appends to the list
QuietGenerated(m) == m \in QuietMoves /\ m # ttMove
                     /\ m \notin {refutations[1], refutations[2], refutations[3]}
\* the tacticals the MAIN picker defers
DeferredTactical(m) == m \in TacticalMoves /\ m # ttMove /\ seeVal[m] < -50
\* the tacticals the MAIN picker yields in the tactical stage
GoodTactical(m) == m \in TacticalMoves /\ m # ttMove /\ seeVal[m] >= -50

\* MVV-LVA as the claims state it
MvvLva(m) == PieceValueMG(MoveInfo[m].victim) - MoveInfo[m].pt
EvasionScore(m) ==
    IF MoveInfo[m].victim # NO_PIECE_TYPE \/ MoveInfo[m].mtype = "EN_PASSANT"
    THEN MvvLva(m) ELSE 0
QuietScore(m) == scoreQuiet(m)

\* C1: one enumerate call never hands the same move to the handler twice.
C1_NoMoveTwice ==
    \A i, j \in DOMAIN calls : i # j => calls[i].move # calls[j].move

\* a MAIN enumeration that ran to the end where the TT move, a killer and
\* a counter equal to that killer are all legal
C1_Witness ==
    /\ MainNoCheck /\ Returned /\ NoStop
    /\ isLegal(ttMove)
    /\ isLegal(refutations[1]) /\ ~isTactical(refutations[1])
    /\ refutations[3] = refutations[1]
    /\ refutations[1] # ttMove
    /\ Len(calls) >= 3

\* C2: in MAIN mode, when no handler invocation stops, the moves yielded
\* are exactly the legal moves of the position.
C2_MainYieldsAllLegal ==
    (Type = MAIN /\ Returned /\ NoStop) => Yielded = Legal

\* a MAIN enumeration, not in check, that ran to the end with a legal quiet
\* counter move different from the killers and from the TT move, and a
\* killer that is an illegal move
C2_Witness ==
    /\ MainNoCheck /\ Returned /\ NoStop
    /\ isLegal(refutations[3]) /\ ~isTactical(refutations[3])
    /\ refutations[3] \notin {ttMove, refutations[1], refutations[2]}
    /\ refutations[1] # MOVE_NONE /\ ~isLegal(refutations[1])
    /\ Cardinality(Legal) >= 3

\* C3: in QUIESCENCE mode only the TT, evasion and tactical stages yield;
\* when not in check every yielded move other than the TT move is a legal
\* tactical passing see(m, 0); and when no handler invocation stops the
\* moves yielded are exactly the legal TT move, all legal moves if in
\* check, and the legal tacticals passing see(m, 0) if not.
C3_QuiescenceYield ==
    Type = QUIESCENCE =>
        /\ \A i \in DOMAIN calls :
              /\ calls[i].stage \in {"tt", "evasion", "goodTactical"}
              /\ ~inCheck =>
                    \/ calls[i].move = ttMove
                    \/ /\ calls[i].move \in Legal
                       /\ isTactical(calls[i].move)
                       /\ seeVal[calls[i].move] >= 0
        /\ (Returned /\ NoStop) =>
              Yielded = (IF ttMove \in Legal THEN {ttMove} ELSE {})
                        \cup (IF inCheck THEN Legal
                              ELSE {m \in Legal : isTactical(m) /\ seeVal[m] >= 0})

\* a QUIESCENCE enumeration, not in check, that ran to the end: a tactical
\* passing see(0) was yielded, one losing less than 50 was not, and a
\* legal quiet killer was not
C3_Witness ==
    /\ Type = QUIESCENCE /\ ~inCheck /\ Returned /\ NoStop
    /\ \E m \in TacticalMoves : seeVal[m] = -25 /\ m \notin Yielded
    /\ \E m \in TacticalMoves : seeVal[m] >= 0 /\ m # ttMove /\ m \in Yielded
    /\ isLegal(refutations[1]) /\ ~isTactical(refutations[1])
    /\ refutations[1] \notin Yielded

\* the place of a yielded move in the first half of the stage order
C4_Rank(m) ==
    IF m = ttMove THEN 0
    ELSE IF GoodTactical(m) THEN 1
    ELSE IF m = refutations[1] /\ ~isTactical(m) THEN 2
    ELSE IF m = refutations[2] /\ ~isTactical(m) THEN 3
    ELSE IF m = refutations[3] /\ ~isTactical(m) THEN 4
    ELSE 5

\* C4: in MAIN mode, not in check: the TT move, then the tacticals passing
\* see(m, -50), then killer 1, killer 2 and the counter move, each only if
\* it is not the TT move, not tactical and legal, and all of them before
\* every generated quiet and every deferred tactical; without a stop
\* every one of them is yielded.
C4_FirstHalfOrder ==
    MainNoCheck =>
        /\ \A i, j \in DOMAIN calls :
              i < j => C4_Rank(calls[i].move) <= C4_Rank(calls[j].move)
        /\ \A i \in DOMAIN calls :
              /\ calls[i].move = ttMove => i = 1 /\ isLegal(ttMove)
              /\ calls[i].stage \in {"killer1", "killer2", "counter"} =>
                    /\ calls[i].move # ttMove
                    /\ ~isTactical(calls[i].move)
                    /\ isLegal(calls[i].move)
              /\ calls[i].stage = "killer1" => calls[i].move = refutations[1]
              /\ calls[i].stage = "killer2" => calls[i].move = refutations[2]
              /\ calls[i].stage = "counter" =>
                    /\ calls[i].move = refutations[3]
                    /\ calls[i].move \notin {refutations[1], refutations[2]}
        /\ (isLegal(ttMove) /\ calls # << >>) => calls[1].move = ttMove
        /\ (Returned /\ NoStop) =>
              \A m \in Legal : C4_Rank(m) < 5 => m \in Yielded

\* a MAIN enumeration, not in check, that ran to the end and yielded a
\* good tactical, then a killer or the counter move, then a generated
\* quiet or a deferred tactical
C4_Witness ==
    /\ MainNoCheck /\ Returned /\ NoStop
    /\ \E j, k, l \in DOMAIN calls :
          /\ calls[j].stage = "goodTactical"
          /\ calls[k].stage \in {"killer1", "killer2", "counter"}
          /\ calls[l].stage \in {"goodQuiet", "badTactical", "badQuiet"}

\* the place of a yielded move in the last three stages
C5_Class(m) ==
    IF QuietGenerated(m) /\ QuietScore(m) >= 0 THEN 1
    ELSE IF DeferredTactical(m) THEN 2
    ELSE IF QuietGenerated(m) /\ QuietScore(m) < 0 THEN 3
    ELSE 0

\* C5: in MAIN mode, not in check, every generated quiet with a score >= 0
\* is yielded before every deferred tactical, and every deferred tactical
\* before every generated quiet with a score < 0.
C5_LastStagesApart ==
    MainNoCheck =>
        \A i, j \in DOMAIN calls :
            (i < j /\ C5_Class(calls[i].move) > 0 /\ C5_Class(calls[j].move) > 0)
                => C5_Class(calls[i].move) <= C5_Class(calls[j].move)

\* C6: in MAIN mode, not in check, the generated quiets are yielded in
\* descending scoreQuiet order.
C6_QuietsDescending ==
    MainNoCheck =>
        \A i, j \in DOMAIN calls :
            (i < j /\ QuietGenerated(calls[i].move) /\ QuietGenerated(calls[j].move))
                => QuietScore(calls[i].move) >= QuietScore(calls[j].move)

\* C7: the moves of the good-tacticals stage are yielded in non-increasing
\* MVV-LVA order; pawn takes queen (move 4) comes before knight takes
\* pawn (move 2).
C7_GoodTacticalsMvvLva ==
    /\ \A i, j \in DOMAIN calls :
          (i < j /\ calls[i].stage = "goodTactical" /\ calls[j].stage = "goodTactical")
              => MvvLva(calls[i].move) >= MvvLva(calls[j].move)
    /\ \A i, j \in DOMAIN calls :
          (calls[i].stage = "goodTactical" /\ calls[j].stage = "goodTactical"
           /\ calls[i].move = 4 /\ calls[j].move = 2) => i < j

\* pawn takes queen and knight takes pawn were both yielded by the
\* good-tacticals stage
C7_Witness ==
    /\ ~inCheck
    /\ \E i, j \in DOMAIN calls :
          /\ calls[i].stage = "goodTactical" /\ calls[i].move = 4
          /\ calls[j].stage = "goodTactical" /\ calls[j].move = 2

\* C8: in check, in either mode, enumerate yields the TT move first if it
\* is legal, then the other legal moves in non-increasing scoreEvasion
\* order, and returns; no other stage runs, no SEE filter applies, and the
\* yield is the same whatever the killers and the counter move are.
C8_EvasionsOnly ==
    (inCheck /\ pc # "idle") =>
        /\ pc \in {"tt", "evasions", "done"}
        /\ \A i \in DOMAIN calls :
              /\ calls[i].stage \in {"tt", "evasion"}
              /\ calls[i].stage = "tt" <=> (i = 1 /\ isLegal(ttMove))
              /\ calls[i].move \in Legal
        /\ \A i, j \in DOMAIN calls :
              (i < j /\ calls[i].stage = "evasion")
                  => EvasionScore(calls[i].move) >= EvasionScore(calls[j].move)
        /\ (Returned /\ NoStop) => Yielded = Legal
        /\ (pc = "evasions" /\ isLegal(ttMove)) => MovesOf(calls) = <<ttMove>>

\* an enumeration in check that ran to the end: the TT move, then a
\* capture and a non-capture, with a legal quiet killer and a tactical
\* losing more than 50 among the moves
C8_Witness ==
    /\ inCheck /\ Returned /\ NoStop
    /\ isLegal(ttMove)
    /\ isLegal(refutations[1]) /\ refutations[1] # ttMove
    /\ \E m \in TacticalMoves : seeVal[m] = -100 /\ m \in Yielded
    /\ \E i, j \in DOMAIN calls :
          /\ calls[i].stage = "evasion" /\ isCapture(calls[i].move)
          /\ calls[j].stage = "evasion" /\ ~isCapture(calls[j].move)

\* C9: enumerate returns false exactly when a handler invocation answered
\* stop and true otherwise, and the invocation that answered stop is the
\* last one of the call.
C9_StopEndsEnumerate ==
    pc # "idle" =>
        /\ \A i \in DOMAIN calls : calls[i].stop => i = Len(calls)
        /\ (\E i \in DOMAIN calls : calls[i].stop) => (Returned /\ result = "false")
        /\ Returned => (result = "false" <=> \E i \in DOMAIN calls : calls[i].stop)
        /\ Returned => result \in {"true", "false"}
        /\ ~Returned => result = "none"

\* a handler invocation answered stop in the middle of a loop with moves
\* left to yield
C9_Witness ==
    /\ Returned /\ result = "false"
    /\ Len(calls) >= 2
    /\ calls[Len(calls)].stop
    /\ Cardinality(Legal \ Yielded) >= 1

\* enumerate returned true without a single handler invocation
C9_WitnessEmpty == Returned /\ result = "true" /\ calls = << >>

\* C10 as stated: shouldStop answers true exactly at a multiple of 1024
\* nodes with tournament time in use and elapsed >= allocatedTime, or a
\* fixed time set and elapsed >= maxTime, or a node limit set and
\* nbNodes >= maxNodes.
C10_AsStated ==
    stopAnswer # "none" =>
        (stopAnswer = "true") =
            (/\ nbNodes % 1024 = 0
             /\ \/ useTournamentTime /\ now - startTime >= allocatedTime
                \/ maxTime > 0 /\ now - startTime >= maxTime
                \/ maxNodes > 0 /\ nbNodes >= maxNodes)

\* C10 amended: as stated, but the fixed time per move stops the search
\* only once elapsed > maxTime; with all limits zero the answer is never
\* true.
C10_ShouldStop ==
    stopAnswer # "none" =>
        /\ (stopAnswer = "true") =
            (/\ nbNodes % 1024 = 0
             /\ \/ useTournamentTime /\ now - startTime >= allocatedTime
                \/ maxTime > 0 /\ now - startTime > maxTime
                \/ maxNodes > 0 /\ nbNodes >= maxNodes)
        /\ (timeLeft[WHITE] = 0 /\ timeLeft[BLACK] = 0 /\ maxTime = 0 /\ maxNodes = 0)
              => stopAnswer = "false"

\* shouldStop answered true at a sampling point because of the fixed time
\* per move alone
C10_Witness ==
    /\ stopAnswer = "true"
    /\ nbNodes > 0
    /\ ~useTournamentTime
    /\ maxNodes = 0
    /\ maxTime > 0 /\ now - startTime > maxTime


\* C11: tournament time is in use whenever either side has time left, so
\* at a sampling point with elapsed >= allocatedTime shouldStop answers
\* true also when only Black's remaining time is set.
C11_TournamentTimeEitherSide ==
    (/\ stopAnswer # "none"
     /\ nbNodes % 1024 = 0
     /\ timeLeft[WHITE] # 0 \/ timeLeft[BLACK] # 0
     /\ now - startTime >= allocatedTime)
        => stopAnswer = "true"

\* C12: once stop() was requested during a search, the shouldStop call
\* made at a multiple of 1024 nodes answers true, whatever the limits.
C12_StopSeenByShouldStop ==
    (/\ searching
     /\ stopRequested
     /\ stopAnswer # "none"
     /\ nbNodes % 1024 = 0)
        => stopAnswer = "true"

\* C13: searchAborted() is true only if the most recent search ended by
\* budget exhaustion or an external stop; an Engine that never searched
\* is idle and not aborted.
C13_AbortedOnlyAfterAbort ==
    /\ (~searching /\ aborted) => lastEnd \in {"budget", "stop"}
    /\ searches = 0 => (~searching /\ ~aborted)


\* C14: after any sequence of updateKillers and clearKillers the two killer
\* slots of a ply are equal only if both are MOVE_NONE, so the assertion
\* of the MovePicker constructor holds for killerMoves[ply][0] and [1].
C14_KillersDistinct ==
    \A p \in Plies :
        /\ killerMoves[p][0] = killerMoves[p][1]
              => (killerMoves[p][0] = MOVE_NONE /\ killerMoves[p][1] = MOVE_NONE)
        /\ killerMoves[p][0] # killerMoves[p][1] \/ killerMoves[p][0] = MOVE_NONE

\* updateKillers was called with the move of slot 1: the two killers of
\* the ply changed places
C14_Witness ==
    /\ lastOp.op = "updateKillers"
    /\ killerMoves[lastOp.ply][0] = lastOp.move
    /\ killerMoves[lastOp.ply][0] # MOVE_NONE
    /\ killerMoves[lastOp.ply][1] # MOVE_NONE
    /\ \E q \in Plies : q # lastOp.ply /\ killerMoves[q][1] # MOVE_NONE

\* C15: updateKillers(m, ply) moves slot 0 to slot 1 and stores m in slot 0
\* when m differs from slot 0 and changes nothing otherwise; slot 0 is m
\* afterwards and the other plies and the counter-move table are unchanged.
C15_UpdateKillers ==
    [][lastOp'.op = "updateKillers" =>
         LET m == lastOp'.move
             p == lastOp'.ply
         IN  /\ killerMoves'[p][0] = m
             /\ killerMoves'[p][1] = (IF killerMoves[p][0] # m
                                      THEN killerMoves[p][0]
                                      ELSE killerMoves[p][1])
             /\ \A q \in Plies : q # p => killerMoves'[q] = killerMoves[q]
             /\ counterMoves' = counterMoves]_vars

\* a killer was stored over another one, which moved to slot 1, while
\* another ply holds killers of its own
C15_Witness ==
    /\ lastOp.op = "updateKillers"
    /\ lastOp.move # MOVE_NONE
    /\ killerMoves[lastOp.ply][0] = lastOp.move
    /\ killerMoves[lastOp.ply][1] \notin {MOVE_NONE, lastOp.move}
    /\ \E q \in Plies : q # lastOp.ply /\ killerMoves[q][0] # MOVE_NONE

\* C16: updateCounter(m) changes nothing when the position has no previous
\* move, and getCounter() is then MOVE_NONE; otherwise it writes m to the
\* one entry of (piece on the previous move's to square, that square),
\* leaves the other entries alone, and getCounter() returns m.
C16_UpdateCounter ==
    [][lastOp'.op = "updateCounter" =>
         LET m == lastOp'.move
             sq == prevMove.to
             piece == board[prevMove.to]
         IN  IF prevMove = NoMove
             THEN counterMoves' = counterMoves /\ getCounter' = MOVE_NONE
             ELSE /\ counterMoves'[piece][sq] = m
                  /\ \A pc_ \in Pieces, t \in Squares :
                        (pc_ # piece \/ t # sq)
                            => counterMoves'[pc_][t] = counterMoves[pc_][t]
                  /\ getCounter' = m]_vars

\* a counter move was stored for a previous move while another entry of
\* the table holds a different move
C16_Witness ==
    /\ lastOp.op = "updateCounter"
    /\ lastOp.move # MOVE_NONE
    /\ prevMove # NoMove
    /\ getCounter = lastOp.move
    /\ \E pc_ \in Pieces, t \in Squares :
          counterMoves[pc_][t] \notin {MOVE_NONE, lastOp.move}

\* C17: for every non-promotion quiet move, scoreQuiet returns
\* (NB_PIECE_TYPE - pieceType) + threat-evasion bonus + 10 if the moved
\* piece attacks the enemy king from its destination square, + 0 if it
\* does not, whatever the piece.
GivesCheck(i) ==
    CASE i.pt = PAWN   -> i.pawnHitsKing
      [] i.pt = KNIGHT -> i.knightHitsKing
      [] i.pt = BISHOP -> i.diagHitsKing
      [] i.pt = ROOK   -> i.orthHitsKing
      [] i.pt = QUEEN  -> i.diagHitsKing \/ i.orthHitsKing
      [] OTHER         -> FALSE

C17_CheckBonusOnce ==
    (qdone /\ qmove.mtype # "PROMOTION") =>
        qscore = (NB_PIECE_TYPE - qmove.pt) + threatBonus(qmove)
                 + (IF GivesCheck(qmove) THEN 10 ELSE 0)

\* C18: useTimeLimit() terminates for every SearchLimits value, without
\* calling itself, and returns true exactly when useTournamentTime() or
\* useFixedTime() holds; it returns false when neither does.
C18_UseTimeLimit ==
    /\ tlEntries <= 1
    /\ tlAnswer # "none" =>
           tlAnswer = (IF useTournamentTime \/ useFixedTime
                       THEN "true" ELSE "false")

\* C19: for every position and depth d >= 1, perft<true> and perft<false>
\* return the number of sequences of d consecutive legal moves, and the
\* position is back at its entry state on return; while perft runs the
\* position is the entry position plus the moves in progress of the open
\* calls, so every doMove is undone by undoMove on the same move before
\* the next sibling is visited, and every call enumerates for the side to
\* move.
RECURSIVE CountSequences(_, _), SumSequences(_, _)
CountSequences(last, d) ==
    IF d = 0 THEN 1 ELSE SumSequences(pfLegal[last], d)

SumSequences(S, d) ==
    IF S = {} THEN 0
    ELSE LET m == CHOOSE x \in S : TRUE
         IN  CountSequences(m, d - 1) + SumSequences(S \ {m}, d)

C19_PerftCounts ==
    /\ pfPhase = "done" =>
           /\ pfResult = CountSequences(0, pfDepth)
           /\ pfPos = <<>>
    /\ pfPhase = "running" =>
           /\ pfPos = [i \in 1..(Len(pfStack) - 1) |-> pfStack[i].cur]
           /\ \A i \in 1..Len(pfPos) : pfPos[i] # 0
           /\ \A i \in 1..Len(pfStack) :
                  pfStack[i].me = getSideToMove(SubSeq(pfPos, 1, i - 1))

C19_Witness ==
    /\ pfPhase = "done"
    /\ pfDiv
    /\ pfDepth >= 2
    /\ pfResult >= 2

\* C20: the driver completes its report without an arithmetic fault for
\* every depth and measured duration: the NPS computation never divides
\* by zero, including when elapsed == 0.
C20_ReportWithoutFault ==
    /\ drvPhase # "fault"
    /\ drvPhase = "reported" => drvElapsed # 0

====
